---------------------------- MODULE Spec2Model ----------------------------
(***************************************************************************)
(* Model of the sliding puzzle of src/src/sliding-puzzle.js                *)
(* (SlidingPuzzle.Game): the board built by startPuzzle, the scramble walk *)
(* (shufflePieces / swapPiece), the player's clicks (checkPiece /          *)
(* slidePiece), the solved check (tweenOver) and the change of round       *)
(* (nextRound).                                                            *)
(*                                                                         *)
(* A handler of the game runs to completion.  A handler that calls         *)
(* shufflePieces or startPlay as its last statement is modelled as the     *)
(* handler's own action followed by the callee's action, with pc naming    *)
(* the pending call: while pc is not "idle" nothing but that call can run. *)
(* Tweens are the engine's: a started tween completes at some later time,  *)
(* and its onComplete callback then runs as a handler of its own.          *)
(***************************************************************************)
EXTENDS Integers, Sequences, FiniteSets

\* Bounds of the model.
MaxCells == 9
MaxIter == 2
MaxClicks == 2

\* SlidingPuzzle.ALLOW_CLICK, SlidingPuzzle.TWEENING
ALLOW_CLICK == 0
TWEENING == 1

\* The four directions (Phaser.UP ...), null (no move yet) and undefined
\* (the value of rnd.pick on an empty array).
Directions == {"UP", "DOWN", "LEFT", "RIGHT"}
Null == "null"
Undefined == "undefined"

\* The values of this.shuffleSpeed: 80 is the constructor's, 0 is the
\* documented setting for an instant scramble.
ShuffleSpeeds == {0, 80}

\* The grids of a round, startPuzzle(key, rows, columns): those of at most
\* MaxCells pieces with at least 2 rows and 2 columns, and those with any
\* number of rows and columns from 1.
Grids ==
    {g \in (2..MaxCells) \X (2..MaxCells) : g[1] * g[2] <= MaxCells}
AnyGrids ==
    {g \in (1..MaxCells) \X (1..MaxCells) : g[1] * g[2] <= MaxCells}
IterationCounts == 0..MaxIter

VARIABLES
    rows, columns,     \* this.rows, this.columns
    pieces,            \* this.pieces: the sprites' data, in creation order
    spacer,            \* this.spacer: index of the spacer in pieces (0: null)
    iterations,        \* this.iterations
    shuffleSpeed,      \* this.shuffleSpeed
    lastMove,          \* this.lastMove
    photo,             \* this.photo
    action,            \* this.action
    pc,                \* the call the running handler is about to make
    shuffleTween,      \* onComplete callback of the pending scramble tween
    slideTweens,       \* pending player slides (onComplete: tweenOver)
    fadeTweens,        \* pending fades of the spacer (onComplete: arm nextRound)
    nextRoundArmed,    \* input.onDown holds the nextRound listener
    steps,             \* history: shufflePieces calls of this round
    swaps,             \* history: swapPiece calls of this round
    startIterations,   \* history: this.iterations when the round's scramble began
    clicks,            \* history: accepted clicks of this round
    startPlays,        \* history: startPlay calls of this round
    solvedChecks,      \* history: tweenOver calls of this round that found it solved
    lastCall,          \* history: the function that ran last, and its piece
    xy,                \* the sprites' x and y, in creation order
    tweens,            \* the pending tweens of x and y, in creation order
    tracked            \* whether xy and tweens are kept (SpecDisplay) or not

vars == <<rows, columns, pieces, spacer, iterations, shuffleSpeed, lastMove,
          photo, action, pc, shuffleTween, slideTweens, fadeTweens,
          nextRoundArmed, steps, swaps, startIterations, clicks, startPlays,
          solvedChecks, lastCall, xy, tweens, tracked>>

board == <<rows, columns, pieces, spacer, lastMove>>
config == <<rows, columns, photo, shuffleSpeed, tracked>>
history == <<steps, swaps, startIterations, clicks, startPlays, solvedChecks>>
display == <<xy, tweens>>

Call(op, arg) == [op |-> op, arg |-> arg]

---------------------------------------------------------------------------
\* Pure functions of the source.

\* BuildPieces with the correct column taken from x instead of y.
BuildPiecesCorrectColumnFromX(r, c) ==
    [k \in 1..(r * c) |->
        [row |-> (k - 1) % r, column |-> (k - 1) \div r,
         correctRow |-> (k - 1) % r, correctColumn |-> (k - 1) % r]]

\* startPuzzle's double loop: for y < columns, for x < rows, piece (x, y).
BuildPieces(r, c) ==
    [k \in 1..(r * c) |->
        [row |-> (k - 1) % r, column |-> (k - 1) \div r,
         correctRow |-> (k - 1) % r, correctColumn |-> (k - 1) \div r]]

\* getPiece: the first piece at (row, column), 0 for null.
getPiece(ps, row, column) ==
    LET at == {i \in 1..Len(ps) : ps[i].row = row /\ ps[i].column = column}
    IN  IF at = {} THEN 0 ELSE CHOOSE i \in at : \A j \in at : i <= j

\* AvailableMoves with the lower bounds of the grid off by one.
AvailableMovesLowerBoundOne(sp, last, r, c) ==
    {m \in Directions :
        \/ m = "UP" /\ sp.column > 1 /\ last # "DOWN"
        \/ m = "DOWN" /\ sp.column < c - 1 /\ last # "UP"
        \/ m = "LEFT" /\ sp.row > 1 /\ last # "RIGHT"
        \/ m = "RIGHT" /\ sp.row < r - 1 /\ last # "LEFT"}

\* AvailableMoves without the tests of lastMove.
AvailableMovesNoReverseTest(sp, last, r, c) ==
    {m \in Directions :
        \/ m = "UP" /\ sp.column > 0
        \/ m = "DOWN" /\ sp.column < c - 1
        \/ m = "LEFT" /\ sp.row > 0
        \/ m = "RIGHT" /\ sp.row < r - 1}

\* shufflePieces, the array of available moves.
AvailableMoves(sp, last, r, c) ==
    {m \in Directions :
        \/ m = "UP" /\ sp.column > 0 /\ last # "DOWN"
        \/ m = "DOWN" /\ sp.column < c - 1 /\ last # "UP"
        \/ m = "LEFT" /\ sp.row > 0 /\ last # "RIGHT"
        \/ m = "RIGHT" /\ sp.row < r - 1 /\ last # "LEFT"}

\* Destination with UP and DOWN moving along the rows, LEFT and RIGHT along
\* the columns.
DestinationAxesSwapped(sp, m) ==
    CASE m = "UP" -> [row |-> sp.row - 1, column |-> sp.column]
      [] m = "DOWN" -> [row |-> sp.row + 1, column |-> sp.column]
      [] m = "LEFT" -> [row |-> sp.row, column |-> sp.column - 1]
      [] m = "RIGHT" -> [row |-> sp.row, column |-> sp.column + 1]

\* Destination with LEFT changing the column too.
DestinationLeftDiagonal(sp, m) ==
    CASE m = "UP" -> [row |-> sp.row, column |-> sp.column - 1]
      [] m = "DOWN" -> [row |-> sp.row, column |-> sp.column + 1]
      [] m = "LEFT" -> [row |-> sp.row - 1, column |-> sp.column - 1]
      [] m = "RIGHT" -> [row |-> sp.row + 1, column |-> sp.column]

\* shufflePieces, the switch: the destination of the spacer for a move.
Destination(sp, m) ==
    CASE m = "UP" -> [row |-> sp.row, column |-> sp.column - 1]
      [] m = "DOWN" -> [row |-> sp.row, column |-> sp.column + 1]
      [] m = "LEFT" -> [row |-> sp.row - 1, column |-> sp.column]
      [] m = "RIGHT" -> [row |-> sp.row + 1, column |-> sp.column]

\* swapPiece without the writes of the spacer's row and column.
swapPieceSpacerStays(ps, s, row, column) ==
    LET p == getPiece(ps, row, column)
    IN  IF p = 0 THEN ps
        ELSE [ps EXCEPT ![p].row = ps[s].row, ![p].column = ps[s].column]

\* swapPiece with the piece's column taken from the spacer's row.
swapPieceColumnFromRow(ps, s, row, column) ==
    LET p == getPiece(ps, row, column)
    IN  IF p = 0 THEN ps
        ELSE [ps EXCEPT ![p].row = ps[s].row, ![p].column = ps[s].row,
                        ![s].row = row, ![s].column = column]

\* swapPiece, the data part: the piece at (row, column) takes the spacer's
\* cell and the spacer takes (row, column).  A null piece throws before
\* anything is written.
swapPiece(ps, s, row, column) ==
    LET p == getPiece(ps, row, column)
    IN  IF p = 0 THEN ps
        ELSE [ps EXCEPT ![p].row = ps[s].row, ![p].column = ps[s].column,
                        ![s].row = row, ![s].column = column]

\* swapPiece with a counter that is never decremented.
AfterSwapCounterKept(n) ==
    IF n > 0 THEN [iterations |-> n, callback |-> "shufflePieces"]
    ELSE [iterations |-> n, callback |-> "startPlay"]

\* swapPiece, the counter: what runs after the swap, and the counter then.
AfterSwap(n) ==
    IF n > 0 THEN [iterations |-> n - 1, callback |-> "shufflePieces"]
    ELSE [iterations |-> n, callback |-> "startPlay"]

\* checkPiece without the test that piece and spacer share a row.
checkPieceNoRowTest(ps, s, p) ==
    IF ps[s].column = ps[p].column - 1
    THEN [ps EXCEPT ![p].column = @ - 1, ![s].column = @ + 1]
    ELSE IF ps[s].column = ps[p].column + 1
    THEN [ps EXCEPT ![p].column = @ + 1, ![s].column = @ - 1]
    ELSE IF ps[p].column = ps[s].column
    THEN IF ps[s].row = ps[p].row - 1
         THEN [ps EXCEPT ![p].row = @ - 1, ![s].row = @ + 1]
         ELSE IF ps[s].row = ps[p].row + 1
         THEN [ps EXCEPT ![p].row = @ + 1, ![s].row = @ - 1]
         ELSE ps
    ELSE ps

\* checkPiece with the spacer moved the wrong way when it is below the piece.
checkPieceSpacerWrongWay(ps, s, p) ==
    IF ps[p].row = ps[s].row
    THEN IF ps[s].column = ps[p].column - 1
         THEN [ps EXCEPT ![p].column = @ - 1, ![s].column = @ + 1]
         ELSE IF ps[s].column = ps[p].column + 1
         THEN [ps EXCEPT ![p].column = @ + 1, ![s].column = @ + 1]
         ELSE ps
    ELSE IF ps[p].column = ps[s].column
    THEN IF ps[s].row = ps[p].row - 1
         THEN [ps EXCEPT ![p].row = @ - 1, ![s].row = @ + 1]
         ELSE IF ps[s].row = ps[p].row + 1
         THEN [ps EXCEPT ![p].row = @ + 1, ![s].row = @ - 1]
         ELSE ps
    ELSE ps

\* checkPiece, the adjacency tests and the data they change.
checkPiece(ps, s, p) ==
    IF ps[p].row = ps[s].row
    THEN IF ps[s].column = ps[p].column - 1
         THEN [ps EXCEPT ![p].column = @ - 1, ![s].column = @ + 1]
         ELSE IF ps[s].column = ps[p].column + 1
         THEN [ps EXCEPT ![p].column = @ + 1, ![s].column = @ - 1]
         ELSE ps
    ELSE IF ps[p].column = ps[s].column
    THEN IF ps[s].row = ps[p].row - 1
         THEN [ps EXCEPT ![p].row = @ - 1, ![s].row = @ + 1]
         ELSE IF ps[s].row = ps[p].row + 1
         THEN [ps EXCEPT ![p].row = @ + 1, ![s].row = @ - 1]
         ELSE ps
    ELSE ps

\* tweenOver, the scan of the pieces.
outOfSequence(ps) ==
    \E i \in 1..Len(ps) :
        ps[i].correctRow # ps[i].row \/ ps[i].correctColumn # ps[i].column

\* nextRound, the cycle of the photos.
NextPhoto(key) ==
    IF key = "photo1" THEN "photo2"
    ELSE IF key = "photo2" THEN "photo3"
    ELSE "photo1"

\* The size of the source image, one size for the three photos.
photoWidth == 12
photoHeight == 8

\* this.pieceWidth and this.pieceHeight for a grid of r rows and c columns;
\* they are the width and height of every sprite too, the spacer included,
\* each being cropped to that size.
pieceWidth(r) == photoWidth \div r
pieceHeight(c) == photoHeight \div c

\* startPuzzle's double loop, the sprites' positions:
\* pieces.create(x * pieceWidth, y * pieceHeight).
BuildDisplay(r, c) ==
    [k \in 1..(r * c) |->
        [x |-> ((k - 1) % r) * pieceWidth(r),
         y |-> ((k - 1) \div r) * pieceHeight(c)]]

\* How far a running tween has got when its sprite is read, in halves.
Progress == {0, 1}

\* The position a tween from a to b gives its sprite at progress h.
Between(a, b, h) ==
    [x |-> a.x + ((b.x - a.x) * h) \div 2,
     y |-> a.y + ((b.y - a.y) * h) \div 2]

\* What a read of piece p's x and y can give, with positions d and tweens
\* tw: its position at rest, or a position on the way of a tween of p.
Displayed(d, tw, p) ==
    LET on == {k \in 1..Len(tw) : tw[k].piece = p}
    IN  IF on = {} THEN {d[p]}
        ELSE {Between(tw[k].from, tw[k].to, h) : k \in on, h \in Progress}

\* The first pending tween with one of the callbacks cbs, 0 for none.
FirstTween(tw, cbs) ==
    LET of == {k \in 1..Len(tw) : tw[k].onComplete \in cbs}
    IN  IF of = {} THEN 0 ELSE CHOOSE k \in of : \A j \in of : k <= j

\* The positions and the tweens once tween k has completed: the sprite is
\* at the tween's end and the tween is removed.
Completed(d, tw, k) ==
    IF k = 0 THEN [xy |-> d, tweens |-> tw]
    ELSE [xy |-> [i \in 1..Len(d) |->
                    IF i = tw[k].piece THEN tw[k].to ELSE d[i]],
          tweens |-> [j \in 1..(Len(tw) - 1) |->
                        IF j < k THEN tw[j] ELSE tw[j + 1]]]

\* swapPiece, the sprites: the spacer takes the position read from the
\* piece, and the piece is put, or tweened, to where the spacer was.
swapDisplay(d, tw) ==
    IF ~tracked \/ swaps' = swaps
    THEN xy' = d /\ tweens' = tw
    ELSE LET p == getPiece(pieces, pieces'[spacer].row, pieces'[spacer].column)
         IN  \E v \in Displayed(d, tw, p) :
                 IF shuffleSpeed = 0
                 THEN /\ xy' = [d EXCEPT ![spacer] = v, ![p] = d[spacer]]
                      /\ tweens' = tw
                 ELSE /\ xy' = [d EXCEPT ![spacer] = v]
                      /\ tweens' = Append(tw, [piece |-> p, from |-> v,
                                               to |-> d[spacer],
                                               onComplete |-> shuffleTween'])

\* checkPiece and slidePiece, the sprites: the spacer is moved by its own
\* width or height, and the piece is tweened from where it is read to be to
\* one pieceWidth or pieceHeight further.
slideDisplay(p) ==
    IF ~tracked \/ lastCall'.op # "slidePiece"
    THEN UNCHANGED display
    ELSE LET dr == pieces'[p].row - pieces[p].row
             dc == pieces'[p].column - pieces[p].column
         IN  \E v \in Displayed(xy, tweens, p) :
                 /\ xy' = [xy EXCEPT ![spacer] =
                               [x |-> @.x - dr * pieceWidth(rows),
                                y |-> @.y - dc * pieceHeight(columns)]]
                 /\ tweens' = Append(tweens,
                        [piece |-> p, from |-> v,
                         to |-> [x |-> v.x + dr * pieceWidth(rows),
                                 y |-> v.y + dc * pieceHeight(columns)],
                         onComplete |-> "tweenOver"])

---------------------------------------------------------------------------
\* The state after construction (SlidingPuzzle.Game), before create runs.
Game ==
    /\ rows = 0
    /\ columns = 0
    /\ pieces = <<>>
    /\ spacer = 0
    /\ iterations \in IterationCounts
    /\ shuffleSpeed \in ShuffleSpeeds
    /\ lastMove = Null
    /\ photo = ""
    /\ action = ALLOW_CLICK
    /\ pc = "create"
    /\ shuffleTween = "none"
    /\ slideTweens = 0
    /\ fadeTweens = 0
    /\ nextRoundArmed = FALSE
    /\ steps = 0
    /\ swaps = 0
    /\ startIterations = iterations
    /\ clicks = 0
    /\ startPlays = 0
    /\ solvedChecks = 0
    /\ lastCall = Call("Game", 0)
    /\ xy = <<>>
    /\ tweens = <<>>

\* The game without its sprites' positions: no handler reads x or y but to
\* compute another x or y, so the rest of the state runs the same without.
Init == Game /\ tracked = FALSE

\* The game with its sprites' positions and the tweens that move them.
InitDisplay == Game /\ tracked = TRUE

\* startPuzzle leaving the tweens of the destroyed pieces to run.
startPuzzleKeepsTweens(key, r, c) ==
    /\ photo' = key
    /\ rows' = r
    /\ columns' = c
    /\ pieces' = BuildPieces(r, c)
    /\ spacer' = r * c
    /\ lastMove' = Null
    /\ UNCHANGED <<shuffleTween, slideTweens, fadeTweens, tweens>>
    /\ xy' = IF tracked THEN BuildDisplay(r, c) ELSE <<>>
    /\ pc' = "shufflePieces"
    /\ steps' = 0
    /\ swaps' = 0
    /\ clicks' = 0
    /\ startPlays' = 0
    /\ solvedChecks' = 0
    /\ startIterations' = iterations'
    /\ lastCall' = Call("startPuzzle", 0)
    /\ UNCHANGED <<shuffleSpeed, action, tracked>>

\* startPuzzle without the reset of lastMove.
startPuzzleKeepsLastMove(key, r, c) ==
    /\ photo' = key
    /\ rows' = r
    /\ columns' = c
    /\ pieces' = BuildPieces(r, c)
    /\ spacer' = r * c
    /\ lastMove' = lastMove
    /\ IF pieces # <<>>
       THEN shuffleTween' = "none" /\ slideTweens' = 0 /\ fadeTweens' = 0
       ELSE UNCHANGED <<shuffleTween, slideTweens, fadeTweens>>
    /\ xy' = IF tracked THEN BuildDisplay(r, c) ELSE <<>>
    /\ tweens' = <<>>
    /\ pc' = "shufflePieces"
    /\ steps' = 0
    /\ swaps' = 0
    /\ clicks' = 0
    /\ startPlays' = 0
    /\ solvedChecks' = 0
    /\ startIterations' = iterations'
    /\ lastCall' = Call("startPuzzle", 0)
    /\ UNCHANGED <<shuffleSpeed, action, tracked>>

\* startPuzzle up to its call of shufflePieces: the board is built afresh
\* and lastMove reset.  Destroying the old pieces removes their tweens.
startPuzzle(key, r, c) ==
    /\ photo' = key
    /\ rows' = r
    /\ columns' = c
    /\ pieces' = BuildPieces(r, c)
    /\ spacer' = r * c
    /\ lastMove' = Null
    /\ IF pieces # <<>>
       THEN shuffleTween' = "none" /\ slideTweens' = 0 /\ fadeTweens' = 0
       ELSE UNCHANGED <<shuffleTween, slideTweens, fadeTweens>>
    /\ xy' = IF tracked THEN BuildDisplay(r, c) ELSE <<>>
    /\ tweens' = <<>>
    /\ pc' = "shufflePieces"
    /\ steps' = 0
    /\ swaps' = 0
    /\ clicks' = 0
    /\ startPlays' = 0
    /\ solvedChecks' = 0
    /\ startIterations' = iterations'
    /\ lastCall' = Call("startPuzzle", 0)
    /\ UNCHANGED <<shuffleSpeed, action, tracked>>

\* create: startPuzzle('photo1', 3, 3), for the grids of G.
create(G) ==
    /\ pc = "create"
    /\ UNCHANGED <<iterations, nextRoundArmed>>
    /\ \E g \in G : startPuzzle("photo1", g[1], g[2])

\* shufflePieces with the swapPiece it calls.
shufflePieces ==
    LET moves == AvailableMoves(pieces[spacer], lastMove, rows, columns)
    IN  /\ steps' = steps + 1
        /\ lastCall' = Call("shufflePieces", 0)
        /\ UNCHANGED <<config, spacer, action, slideTweens, fadeTweens,
                       nextRoundArmed, startIterations, clicks, startPlays,
                       solvedChecks>>
        /\ IF moves = {}
           THEN /\ lastMove' = Undefined
                /\ pc' = "idle"
                /\ shuffleTween' = "none"
                /\ UNCHANGED <<pieces, iterations, swaps>>
           ELSE \E m \in moves :
                LET to == Destination(pieces[spacer], m)
                    after == AfterSwap(iterations)
                IN  /\ lastMove' = m
                    /\ pieces' = swapPiece(pieces, spacer, to.row, to.column)
                    /\ swaps' = swaps + 1
                    /\ iterations' = after.iterations
                    /\ IF shuffleSpeed = 0
                       THEN pc' = after.callback /\ shuffleTween' = "none"
                       ELSE pc' = "idle" /\ shuffleTween' = after.callback

\* shufflePieces called by startPuzzle or, with shuffleSpeed 0, by swapPiece.
shufflePiecesCalled ==
    /\ pc = "shufflePieces"
    /\ shufflePieces
    /\ swapDisplay(xy, tweens)

\* shufflePieces run as the onComplete callback of the scramble tween.
shufflePiecesOnComplete ==
    /\ pc = "idle"
    /\ shuffleTween = "shufflePieces"
    /\ shufflePieces
    /\ LET done == Completed(xy, tweens,
                             FirstTween(tweens, {"shufflePieces"}))
       IN  swapDisplay(done.xy, done.tweens)

startPlay ==
    /\ action' = ALLOW_CLICK
    /\ pc' = "idle"
    /\ shuffleTween' = "none"
    /\ startPlays' = startPlays + 1
    /\ lastCall' = Call("startPlay", 0)
    /\ UNCHANGED <<board, config, iterations, slideTweens, fadeTweens,
                   nextRoundArmed, steps, swaps, startIterations, clicks,
                   solvedChecks>>

\* startPlay called by swapPiece (shuffleSpeed 0).
startPlayCalled ==
    /\ pc = "startPlay"
    /\ startPlay
    /\ UNCHANGED display

\* startPlay run as the onComplete callback of the last scramble tween.
startPlayOnComplete ==
    /\ pc = "idle"
    /\ shuffleTween = "startPlay"
    /\ startPlay
    /\ LET done == Completed(xy, tweens, FirstTween(tweens, {"startPlay"}))
       IN  xy' = done.xy /\ tweens' = done.tweens

\* checkPieceClicked with an accepted click recorded as lastMove.
checkPieceClickedRecordsMove(p) ==
    /\ pc = "idle"
    /\ clicks < MaxClicks
    /\ p \in 1..Len(pieces)
    /\ UNCHANGED <<config, spacer, iterations, pc,
                   shuffleTween, fadeTweens, nextRoundArmed, steps, swaps,
                   startIterations, startPlays, solvedChecks>>
    /\ IF action # ALLOW_CLICK
       THEN /\ lastCall' = Call("checkPiece", p)
            /\ UNCHANGED <<pieces, action, slideTweens, clicks, lastMove>>
       ELSE LET moved == checkPiece(pieces, spacer, p)
            IN  /\ pieces' = moved
                /\ IF moved # pieces
                   THEN /\ action' = TWEENING
                        /\ slideTweens' = slideTweens + 1
                        /\ clicks' = clicks + 1
                        /\ lastCall' = Call("slidePiece", p)
                        /\ lastMove' =
                               IF moved[spacer].column > pieces[spacer].column
                               THEN "DOWN"
                               ELSE IF moved[spacer].column < pieces[spacer].column
                               THEN "UP"
                               ELSE IF moved[spacer].row > pieces[spacer].row
                               THEN "RIGHT"
                               ELSE "LEFT"
                   ELSE /\ lastCall' = Call("checkPiece", p)
                        /\ UNCHANGED <<action, slideTweens, clicks, lastMove>>
    /\ slideDisplay(p)

\* checkPiece(piece) with the slidePiece it calls: a click on piece p.
checkPieceClicked(p) ==
    /\ pc = "idle"
    /\ clicks < MaxClicks
    /\ p \in 1..Len(pieces)
    /\ UNCHANGED <<config, spacer, lastMove, iterations, pc,
                   shuffleTween, fadeTweens, nextRoundArmed, steps, swaps,
                   startIterations, startPlays, solvedChecks>>
    /\ IF action # ALLOW_CLICK
       THEN /\ lastCall' = Call("checkPiece", p)
            /\ UNCHANGED <<pieces, action, slideTweens, clicks>>
       ELSE LET moved == checkPiece(pieces, spacer, p)
            IN  /\ pieces' = moved
                /\ IF moved # pieces
                   THEN /\ action' = TWEENING
                        /\ slideTweens' = slideTweens + 1
                        /\ clicks' = clicks + 1
                        /\ lastCall' = Call("slidePiece", p)
                   ELSE /\ lastCall' = Call("checkPiece", p)
                        /\ UNCHANGED <<action, slideTweens, clicks>>
    /\ slideDisplay(p)

\* tweenOver: the onComplete callback of a player's slide.
tweenOver ==
    /\ pc = "idle"
    /\ slideTweens > 0
    /\ slideTweens' = slideTweens - 1
    /\ IF outOfSequence(pieces)
       THEN action' = ALLOW_CLICK /\ UNCHANGED <<fadeTweens, solvedChecks>>
       ELSE /\ fadeTweens' = fadeTweens + 1
            /\ solvedChecks' = solvedChecks + 1
            /\ UNCHANGED action
    /\ lastCall' = Call("tweenOver", 0)
    /\ LET done == Completed(xy, tweens, FirstTween(tweens, {"tweenOver"}))
       IN  xy' = done.xy /\ tweens' = done.tweens
    /\ UNCHANGED <<board, config, iterations, pc, shuffleTween,
                   nextRoundArmed, steps, swaps, startIterations, clicks,
                   startPlays>>

\* The onComplete callback of the spacer's fade: input.onDown.addOnce(nextRound).
fadeOnComplete ==
    /\ pc = "idle"
    /\ fadeTweens > 0
    /\ fadeTweens' = fadeTweens - 1
    /\ nextRoundArmed' = TRUE
    /\ lastCall' = Call("fadeOnComplete", 0)
    /\ UNCHANGED <<board, config, iterations, action, pc, shuffleTween,
                   slideTweens, history, display>>

\* nextRound, run once by the next input.onDown: the next photo, its
\* iterations and its grid, for the grids of G.
nextRound(G) ==
    /\ pc = "idle"
    /\ nextRoundArmed
    /\ nextRoundArmed' = FALSE
    /\ iterations' \in IterationCounts
    /\ \E g \in G : startPuzzle(NextPhoto(photo), g[1], g[2])

Next ==
    \/ create(Grids)
    \/ shufflePiecesCalled
    \/ shufflePiecesOnComplete
    \/ startPlayCalled
    \/ startPlayOnComplete
    \/ \E p \in 1..MaxCells : checkPieceClicked(p)
    \/ tweenOver
    \/ fadeOnComplete
    \/ nextRound(Grids)

Spec == Init /\ [][Next]_vars

\* The same program with startPuzzle also given grids of fewer than 2 rows
\* or columns.
NextAny ==
    \/ create(AnyGrids)
    \/ shufflePiecesCalled
    \/ shufflePiecesOnComplete
    \/ startPlayCalled
    \/ startPlayOnComplete
    \/ \E p \in 1..MaxCells : checkPieceClicked(p)
    \/ tweenOver
    \/ fadeOnComplete
    \/ nextRound(AnyGrids)

SpecAny == Init /\ [][NextAny]_vars

\* The program with the positions of its sprites.
SpecDisplay == InitDisplay /\ [][Next]_vars

\* Every started animation completes, and so does every call in progress:
\* an onComplete callback stays due until it runs, unless the sprite of its
\* tween is destroyed.  Clicks and the click that starts the next round are
\* the player's and come or not.
FairSpec ==
    /\ Init
    /\ [][Next]_vars
    /\ WF_vars(shufflePiecesCalled)
    /\ WF_vars(shufflePiecesOnComplete)
    /\ WF_vars(startPlayCalled)
    /\ WF_vars(startPlayOnComplete)
    /\ WF_vars(tweenOver)
    /\ WF_vars(fadeOnComplete)

TypeOK ==
    /\ rows \in 0..MaxCells /\ columns \in 0..MaxCells
    /\ Len(pieces) = rows * columns
    /\ spacer = Len(pieces)
    /\ iterations \in IterationCounts
    /\ shuffleSpeed \in ShuffleSpeeds
    /\ lastMove \in Directions \cup {Null, Undefined}
    /\ photo \in {"", "photo1", "photo2", "photo3"}
    /\ action \in {ALLOW_CLICK, TWEENING}
    /\ pc \in {"create", "idle", "shufflePieces", "startPlay"}
    /\ shuffleTween \in {"none", "shufflePieces", "startPlay"}
    /\ slideTweens \in 0..MaxClicks /\ fadeTweens \in 0..MaxClicks
    /\ nextRoundArmed \in BOOLEAN
    /\ tracked \in BOOLEAN
    /\ ~tracked => xy = <<>> /\ tweens = <<>>
    /\ tracked => Len(xy) = Len(pieces)
    /\ \A i \in 1..Len(xy) : xy[i].x \in Int /\ xy[i].y \in Int
    /\ \A k \in 1..Len(tweens) :
           /\ tweens[k].piece \in 1..Len(pieces) \ {spacer}
           /\ tweens[k].onComplete \in {"shufflePieces", "startPlay", "tweenOver"}
    /\ tracked =>
           /\ slideTweens = Cardinality({k \in 1..Len(tweens) :
                                             tweens[k].onComplete = "tweenOver"})
           /\ Cardinality({k \in 1..Len(tweens) :
                              tweens[k].onComplete # "tweenOver"})
                  = IF shuffleTween = "none" THEN 0 ELSE 1

---------------------------------------------------------------------------
\* Definitions the properties are stated with.

\* Everything of the game's state but the histories.
program == <<rows, columns, pieces, spacer, iterations, shuffleSpeed,
             lastMove, photo, action, pc, shuffleTween, slideTweens,
             fadeTweens, nextRoundArmed, xy, tweens>>

Abs(n) == IF n < 0 THEN -n ELSE n

\* The cell of a piece.
Cell(p) == <<p.row, p.column>>

Cells == (0..(rows - 1)) \X (0..(columns - 1))

\* Orthogonal neighbours: one cell apart along exactly one axis.
Neighbour(a, b) == Abs(a.row - b.row) + Abs(a.column - b.column) = 1

\* The direct reverse of a move.
Reverse(m) ==
    CASE m = "UP" -> "DOWN"
      [] m = "DOWN" -> "UP"
      [] m = "LEFT" -> "RIGHT"
      [] m = "RIGHT" -> "LEFT"
      [] OTHER -> "no reverse"

\* The number of inversions of the pieces' permutation of the cells, the
\* cells counted in the order the pieces were created in.
Inversions(ps, r) ==
    Cardinality({ij \in (1..Len(ps)) \X (1..Len(ps)) :
        /\ ij[1] < ij[2]
        /\ ps[ij[1]].column * r + ps[ij[1]].row
             > ps[ij[2]].column * r + ps[ij[2]].row})

\* The spacer's Manhattan distance from its home cell (rows-1, columns-1).
SpacerDistance ==
    Abs(rows - 1 - pieces[spacer].row) + Abs(columns - 1 - pieces[spacer].column)

\* A round has been started, and its board built.
Built == pieces # <<>>

\* A scramble step is about to run.
ScrambleStepDue ==
    \/ pc = "shufflePieces"
    \/ pc = "idle" /\ shuffleTween = "shufflePieces"

\* The step taken is checkPiece(pieces[p]).
Clicked(p) ==
    /\ lastCall'.op \in {"checkPiece", "slidePiece"}
    /\ lastCall'.arg = p

---------------------------------------------------------------------------
\* C1: in every reachable state the parity of the permutation of the pieces
\* (spacer included) equals the parity of the spacer's Manhattan distance from
\* its home cell (rows-1, columns-1): the board is reachable from the solved
\* board by swaps of the spacer with an adjacent piece, hence solvable.
C1_ParityInvariant ==
    Built => Inversions(pieces, rows) % 2 = SpacerDistance % 2

\* A 3x3 board at the end of the longest scramble walk, no click made.
C1_Witness ==
    /\ rows = 3 /\ columns = 3
    /\ startIterations = MaxIter
    /\ swaps = MaxIter + 1
    /\ clicks = 0
    /\ startPlays = 1

\* C2: in every reachable state the cells of the pieces, spacer included, are
\* exactly the rows x columns cells of the grid, each used by exactly one
\* piece, and the spacer is one of the pieces.
C2_CellsArePermutation ==
    Built =>
        /\ Len(pieces) = rows * columns
        /\ spacer \in 1..Len(pieces)
        /\ \A i \in 1..Len(pieces) : Cell(pieces[i]) \in Cells
        /\ \A g \in Cells :
               Cardinality({i \in 1..Len(pieces) : Cell(pieces[i]) = g}) = 1

\* A board changed by scramble steps and by a click made between them.
C2_Witness ==
    /\ swaps >= 2
    /\ clicks >= 1
    /\ shuffleTween = "shufflePieces"
    /\ slideTweens = 0

\* C3: at every scramble step the candidate moves never contain the direct
\* reverse of lastMove, nor a move taking the spacer out of the grid.
C3_MovesLegal ==
    ScrambleStepDue =>
        \A m \in AvailableMoves(pieces[spacer], lastMove, rows, columns) :
            /\ m # Reverse(lastMove)
            /\ Cell(Destination(pieces[spacer], m)) \in Cells

\* A step is due after UP, with DOWN in the grid and RIGHT out of it.
C3_Witness ==
    /\ ScrambleStepDue
    /\ lastMove = "UP"
    /\ pieces[spacer].column < columns - 1
    /\ pieces[spacer].row = rows - 1

\* C4: a scramble started with the counter at N performs exactly N swaps:
\* when startPlay runs, the swaps of the round are as many as the counter
\* was at its start.
C4_ExactlyNSwaps ==
    startPlays > 0 => swaps = startIterations

\* C5: checkPiece on a piece that is no orthogonal neighbour of the spacer
\* (diagonal, distant, the spacer itself) changes nothing of the game's state
\* and starts no slide.
C5_NonNeighbourClickNoChange ==
    [][\A p \in 1..Len(pieces) :
          (Clicked(p) /\ ~Neighbour(pieces[p], pieces[spacer]))
              => (UNCHANGED program /\ UNCHANGED clicks
                  /\ lastCall'.op = "checkPiece")]_vars

\* Clicks are allowed, and the piece clicked last is diagonal to the spacer.
C5_Witness ==
    /\ lastCall.op = "checkPiece"
    /\ action = ALLOW_CLICK
    /\ Abs(pieces[lastCall.arg].row - pieces[spacer].row) = 1
    /\ Abs(pieces[lastCall.arg].column - pieces[spacer].column) = 1

\* C6: checkPiece, clicks allowed, on an orthogonal neighbour of the spacer
\* swaps exactly two positions: the piece takes the spacer's cell, the spacer
\* the piece's, and every other piece stays.
C6_NeighbourClickSwapsTwo ==
    [][\A p \in 1..Len(pieces) :
          (Clicked(p) /\ action = ALLOW_CLICK
              /\ Neighbour(pieces[p], pieces[spacer]))
              => /\ Len(pieces') = Len(pieces)
                 /\ spacer' = spacer
                 /\ Cell(pieces'[p]) = Cell(pieces[spacer])
                 /\ Cell(pieces'[spacer]) = Cell(pieces[p])
                 /\ \A i \in 1..Len(pieces) :
                        /\ i \notin {p, spacer} => pieces'[i] = pieces[i]
                        /\ pieces'[i].correctRow = pieces[i].correctRow
                        /\ pieces'[i].correctColumn = pieces[i].correctColumn]_vars

\* An accepted click has just moved a piece of a 3x3 board.
C6_Witness ==
    /\ lastCall.op = "slidePiece"
    /\ rows = 3 /\ columns = 3
    /\ Neighbour(pieces[lastCall.arg], pieces[spacer])

\* C7: the board is solved when startPuzzle has built it, before the first
\* scramble step, and not solved after that single step.
C7_SolvedBeforeFirstStepOnly ==
    /\ (Built /\ steps = 0) => ~outOfSequence(pieces)
    /\ (lastCall.op = "shufflePieces" /\ steps = 1) => outOfSequence(pieces)

\* The first scramble step of a round has just run.
C7_Witness ==
    /\ lastCall.op = "shufflePieces"
    /\ steps = 1
    /\ swaps = 1

C9_InvalidDimensionRejected ==
    (rows < 2 \/ columns < 2) => (pieces = <<>> /\ steps = 0)

\* C10: a scramble step never silently does nothing: every step of the round
\* has performed a swap (the source has no NoMoveAvailable failure that
\* could end a step otherwise).
C10_NoSilentNoOp ==
    steps = swaps

\* The change of the spacer's cell a direction stands for.
Delta(m) ==
    CASE m = "UP" -> <<0, -1>>
      [] m = "DOWN" -> <<0, 1>>
      [] m = "LEFT" -> <<-1, 0>>
      [] m = "RIGHT" -> <<1, 0>>
      [] OTHER -> <<0, 0>>

\* The scramble chains in flight: a call of shufflePieces or startPlay about
\* to be made, and a scramble tween whose callback is still to run.
ScrambleChains ==
    (IF pc \in {"shufflePieces", "startPlay"} THEN 1 ELSE 0)
        + (IF shuffleTween # "none" THEN 1 ELSE 0)

\* C11: on every grid of at least 2 rows and 2 columns the candidate moves
\* of a scramble step are never empty, whatever the spacer's cell and
\* lastMove (after clicks too), and each candidate's destination holds a
\* piece: every scramble step performs a swap.
C11_MovesNeverEmpty ==
    /\ ScrambleStepDue =>
           /\ AvailableMoves(pieces[spacer], lastMove, rows, columns) # {}
           /\ \A m \in AvailableMoves(pieces[spacer], lastMove, rows, columns) :
                  LET to == Destination(pieces[spacer], m)
                  IN  getPiece(pieces, to.row, to.column) \notin {0, spacer}
    /\ lastCall.op = "shufflePieces" => lastMove \in Directions

\* A step is due after a click, the spacer in a corner, with one candidate.
C11_Witness ==
    /\ ScrambleStepDue
    /\ clicks >= 1
    /\ pieces[spacer].row \in {0, rows - 1}
    /\ pieces[spacer].column \in {0, columns - 1}
    /\ Cardinality(AvailableMoves(pieces[spacer], lastMove, rows, columns)) = 1

\* C12: checkPiece, the click accepted or not, leaves lastMove as it was;
\* only a scramble step and the start of a round write lastMove.
C12_ClickKeepsLastMove ==
    [][/\ (\E p \in 1..Len(pieces) : Clicked(p)) => lastMove' = lastMove
       /\ lastMove' # lastMove
              => lastCall'.op \in {"shufflePieces", "startPuzzle"}]_vars

\* An accepted click made after a scramble step: the spacer has moved
\* since, and lastMove is that step's.
C12_Witness ==
    /\ lastCall.op = "slidePiece"
    /\ lastMove \in Directions
    /\ swaps >= 1

\* C13: at most one scramble step is pending or running at any time: a
\* second scramble chain never runs beside the first.
C13_OneScrambleChain ==
    ScrambleChains <= 1

\* The scramble chain of a later round is in flight, a step of it made.
C13_Witness ==
    /\ photo = "photo2"
    /\ ScrambleChains = 1
    /\ steps >= 1
    /\ shuffleSpeed # 0

\* C14: a scramble step records its direction as lastMove and moves the
\* spacer one cell: UP column - 1, DOWN column + 1, LEFT row - 1, RIGHT
\* row + 1; the piece that was there takes the spacer's former cell and no
\* other piece moves.  On a fresh 3x3 board the candidates are {UP, LEFT};
\* after UP the spacer is at (2, 1) and the next candidates exclude DOWN.
C14_ScrambleStepMovesOneCell ==
    [][/\ lastCall'.op = "shufflePieces" =>
              LET d == Delta(lastMove')
                  from == pieces[spacer]
                  there == getPiece(pieces, from.row + d[1], from.column + d[2])
              IN  /\ lastMove' \in Directions
                  /\ there \in (1..Len(pieces)) \ {spacer}
                  /\ Cell(pieces'[spacer]) = <<from.row + d[1], from.column + d[2]>>
                  /\ Cell(pieces'[there]) = Cell(from)
                  /\ \A i \in (1..Len(pieces)) \ {spacer, there} :
                         pieces'[i] = pieces[i]
       /\ (lastCall'.op = "startPuzzle" /\ rows' = 3 /\ columns' = 3) =>
              AvailableMoves(pieces'[spacer'], lastMove', rows', columns')
                  = {"UP", "LEFT"}
       /\ (lastCall.op = "startPuzzle" /\ rows = 3 /\ columns = 3
               /\ lastMove' = "UP") =>
              /\ Cell(pieces'[spacer]) = <<2, 1>>
              /\ "DOWN" \notin
                     AvailableMoves(pieces'[spacer], lastMove', rows, columns)]_vars

\* The first scramble step of a 3x3 board was UP.
C14_Witness ==
    /\ lastCall.op = "shufflePieces"
    /\ rows = 3 /\ columns = 3
    /\ steps = 1
    /\ lastMove = "UP"
    /\ Cell(pieces[spacer]) = <<2, 1>>

\* The step taken is a click that checkPiece accepted (slidePiece was called).
MoveAccepted == lastCall'.op = "slidePiece"

\* C15: every accepted move starts one slide, every slide ends in one
\* tweenOver and in nothing else; tweenOver sets action to ALLOW_CLICK if and
\* only if a piece is out of place, and with every piece in place it leaves
\* clicks disabled and starts the fade that arms the next round; nextRound
\* runs only after a tweenOver of the round found the board solved.
C15_EveryMoveChecked ==
    [][/\ MoveAccepted => slideTweens' = slideTweens + 1
       /\ slideTweens' < slideTweens =>
              lastCall'.op = "tweenOver" /\ slideTweens' = slideTweens - 1
       /\ lastCall'.op = "tweenOver" =>
              IF outOfSequence(pieces')
              THEN action' = ALLOW_CLICK /\ fadeTweens' = fadeTweens
              ELSE action' = TWEENING /\ fadeTweens' = fadeTweens + 1
       /\ (lastCall'.op = "startPuzzle" /\ Built) => solvedChecks >= 1]_vars

\* C16: a click made while action is TWEENING changes nothing; a click is
\* accepted only with no slide in flight and no solved check made in the
\* round, so that one slide at most is in flight.
C16_OneSlideInFlight ==
    [][/\ (action = TWEENING /\ \E p \in 1..Len(pieces) : Clicked(p)) =>
              UNCHANGED program
       /\ MoveAccepted => slideTweens = 0 /\ solvedChecks = 0
       /\ slideTweens' <= 1]_vars

\* C17: in every round a click is accepted only after startPlay has run for
\* that round.
C17_NoMoveDuringScramble ==
    [][MoveAccepted => startPlays >= 1 /\ ScrambleChains = 0]_vars

\* C18: on every grid of at least 2 x 2 and for every start counter, with
\* every started animation completing: each scramble step with a positive
\* counter decrements it and the step at 0 schedules startPlay; startPlay
\* runs once per round at most, with the counter at 0, leaves action at
\* ALLOW_CLICK and no scramble step scheduled; and the scramble of a round
\* leads to the round's startPlay, unless the round is replaced by the next
\* one, whose startPuzzle destroys the pieces and their animations.
C18_ScrambleTerminates ==
    /\ [](startPlays <= 1)
    /\ [](startPlays = 1 => ScrambleChains = 0 /\ iterations = 0)
    /\ [](lastCall.op = "startPlay" => action = ALLOW_CLICK)
    /\ [][lastCall'.op = "shufflePieces" =>
              /\ iterations > 0 =>
                     /\ iterations' = iterations - 1
                     /\ "shufflePieces" \in {pc', shuffleTween'}
              /\ iterations = 0 =>
                     /\ iterations' = 0
                     /\ "startPlay" \in {pc', shuffleTween'}]_vars
    /\ (Built /\ startPlays = 0) ~>
           (startPlays = 1 \/ lastCall.op = "startPuzzle")

\* startPlay has ended an animated scramble of the longest walk.
C18_Witness ==
    /\ lastCall.op = "startPlay"
    /\ shuffleSpeed # 0
    /\ startIterations = 2 /\ swaps = 3
    /\ iterations = 0 /\ action = ALLOW_CLICK

\* C19: at startPlay of a scramble started with an even counter and with no
\* click made, the spacer is not in its home cell (rows-1, columns-1), so
\* the board is not solved.
C19_NotSolvedAtStartPlay ==
    (lastCall.op = "startPlay" /\ clicks = 0 /\ startIterations % 2 = 0) =>
        /\ Cell(pieces[spacer]) # <<rows - 1, columns - 1>>
        /\ SpacerDistance % 2 = 1
        /\ outOfSequence(pieces)

\* startPlay on a 3x3 board after a scramble started at 2, no click made.
C19_Witness ==
    /\ lastCall.op = "startPlay" /\ clicks = 0
    /\ rows = 3 /\ columns = 3
    /\ startIterations = 2 /\ SpacerDistance = 3

\* Where the sprite of a piece in the cell of q is to be displayed, on a
\* grid of r rows and c columns.
CellPosition(q, r, c) ==
    [x |-> q.row * pieceWidth(r), y |-> q.column * pieceHeight(c)]

\* C20: every scramble swap and every accepted slide sends the piece one
\* piece width or one piece height on, to the position of its new cell; and
\* whenever no tween is pending every piece, the spacer too, is displayed at
\* (row x pieceWidth, column x pieceHeight).
C20_DisplayAgreesWithCells ==
    [][/\ Len(tweens') > Len(tweens) =>
              LET t == tweens'[Len(tweens')]
              IN  /\ t.to = CellPosition(pieces'[t.piece], rows', columns')
                  /\ Abs(t.to.x - t.from.x) + Abs(t.to.y - t.from.y)
                         \in {pieceWidth(rows), pieceHeight(columns)}
       /\ (tracked /\ tweens' = <<>>) =>
              \A i \in 1..Len(pieces') :
                  xy'[i] = CellPosition(pieces'[i], rows', columns')]_vars

=============================================================================
